---- MODULE Spec2Model ----
(***************************************************************************)
(* A model of run.py, the verification test runner: version parsing and    *)
(* comparison, field lookup in decoded events, the filter and stats        *)
(* checks, the requirement gate and the TestRunner.run loop as driven by   *)
(* main.                                                                   *)
(*                                                                         *)
(* Text is a sequence of one-character strings.  An optional integer is a  *)
(* sequence of length at most one: <<>> is Python's None, <<n>> is n.      *)
(***************************************************************************)
EXTENDS Integers, Sequences, FiniteSets, TLC

VARIABLES
    python,     \* the interpreter major version running run.py (2 or 3)
    buf,        \* parse_suricata_version: the text handed in
    parsed,     \* parse_suricata_version: what it returned
    verA,       \* version_equal / version_gte: first operand
    verB,       \* version_equal / version_gte: second operand
    verC,       \* version_gte: a third version, for chains of comparisons
    compared,   \* the last comparison made and its outcome
    path,       \* find_value: the field name handed in
    root,       \* find_value: the object handed in
    found,      \* find_value: what it returned or raised
    eve,        \* the event log in the output directory (None: no such file)
    declared,   \* one entry of the test's "checks": its kind and its config
    verdict,    \* what the check's run() returned or raised
    config,     \* TestRunner.config: the test's test.yaml (None: key absent)
    directory,  \* the test directory: its pcap, pcapng and rule files, check.sh
    suricata_config,  \* SuricataConfig: the subject's version and features
    pc,         \* where main and TestRunner.run stand
    args,       \* the argument vector run() built (None: not yet)
    rep,        \* iterations of the loop over range(count) completed
    proc,       \* the subject process: none, running, exited or reaped
    code,       \* the exit status of the subject process
    readers,    \* TestRunner.readers: the state of each pipe_reader thread
    spawned,    \* subject processes spawned for this test
    helpers,    \* other processes spawned (requires and setup scripts,
                \* pre-check, shell checks, check.sh)
    verified,   \* [calls, checks, legacy]: calls of check(), declared checks
                \* run and check.sh runs; [ran, script]: the declared checks
                \* the last call ran, each with whether it passed, and the
                \* exit status of check.sh when the call ran it
    returned,   \* what TestRunner.run returned or raised
    tally,      \* main's counters passed, failed and skipped
    output,     \* the output directory: the repetitions whose files it
                \* holds (0: what was there before the test started)
    pending,    \* the lines the subject process has yet to write
    pipe,       \* the lines in the stdout and the stderr pipe
    written,    \* the lines the subject has written to stdout and to stderr
    files,      \* the stdout and stderr files of the output directory: the
                \* lines in the writer's buffer and the lines on disk
    dirs,       \* the test directories under the tests directory
    patterns,   \* main: args.patterns
    tests,      \* main: the list of tests to run
    position,   \* main: tests run so far
    fail        \* main: args.fail

versionVars == <<buf, parsed, verA, verB, verC, compared>>

findVars == <<path, root, found>>

checkVars == <<eve, declared, verdict>>

pipeVars == <<pending, pipe, written, files>>

suiteVars == <<dirs, patterns, tests, position, fail>>

runVars ==
    <<config, directory, suricata_config, pc, args, rep, proc, code, readers,
      spawned, helpers, verified, returned, tally, output, pipeVars,
      suiteVars>>

vars == <<python, versionVars, findVars, checkVars, runVars>>

\* ------------------------------------------------------------------ bounds

\* Longest version text drawn for parse_suricata_version.
MaxLen == 6

\* Largest version component drawn for the comparison operands.
MaxComponent == 2

\* find_value inputs: the longest list in the object, the largest index and
\* the largest number of dot-separated parts in the field name.
MaxList == 2

MaxIndex == 2

MaxParts == 2

\* The checks: the longest event log and the largest number of entries in
\* a filter's match or in a stats check.
MaxEvents == 3

MaxEntries == 2

\* The tests: the largest number of keys under "requires", of pcap files and
\* of rule files in the test directory, the largest "count" and the largest
\* number of entries under "checks".
MaxRequires == 2

MaxFiles == 2

MaxCount == 2

MaxChecks == 2

MaxOutput == 3

PipeCapacity == 1

BufferCapacity == 2

MaxPatterns == 2

\* ------------------------------------------------------------- basic values

None == <<>>

Some(x) == <<x>>

NotRun == <<"not run">>

\* An exception propagating out of a call: its class and what its message
\* names.
Raised(exc, msg) == <<"raise", exc, msg>>

Returned(v) == <<"return", v>>

Digits == {"0", "1", "2", "3", "4", "5", "6", "7", "8", "9"}

Whitespace == {" "}

IsDigit(c) == c \in Digits

IsDigits(s) == s # <<>> /\ \A i \in 1..Len(s) : IsDigit(s[i])

DigitVal(c) ==
    CASE c = "0" -> 0 [] c = "1" -> 1 [] c = "2" -> 2 [] c = "3" -> 3
      [] c = "4" -> 4 [] c = "5" -> 5 [] c = "6" -> 6 [] c = "7" -> 7
      [] c = "8" -> 8 [] c = "9" -> 9

\* int(text) for a text of decimal digits.
RECURSIVE int(_)
int(s) ==
    IF s = <<>> THEN 0
    ELSE 10 * int(SubSeq(s, 1, Len(s) - 1)) + DigitVal(s[Len(s)])

\* str.strip(): leading and trailing whitespace removed.
RECURSIVE lstrip(_)
lstrip(s) ==
    IF s # <<>> /\ s[1] \in Whitespace THEN lstrip(Tail(s)) ELSE s

RECURSIVE rstrip(_)
rstrip(s) ==
    IF s # <<>> /\ s[Len(s)] \in Whitespace
    THEN rstrip(SubSeq(s, 1, Len(s) - 1)) ELSE s

strip(s) == lstrip(rstrip(s))

\* ------------------------------------------------ parse_suricata_version

SuricataVersion(major, minor, patch) ==
    [major |-> major, minor |-> minor, patch |-> patch]

\* The end (exclusive) of the longest run of digits of s that starts at i.
RECURSIVE DigitRunEnd(_, _)
DigitRunEnd(s, i) ==
    IF i <= Len(s) /\ IsDigit(s[i]) THEN DigitRunEnd(s, i + 1) ELSE i

\* \.? at position i: one dot is consumed when there is one.
SkipDot(s, i) == IF i <= Len(s) /\ s[i] = "." THEN i + 1 ELSE i

\* (\d+)? at position i: the group (None when no digit is there).
OptGroup(s, i) ==
    IF DigitRunEnd(s, i) > i
    THEN Some(int(SubSeq(s, i, DigitRunEnd(s, i) - 1)))
    ELSE None

\* re.search: the leftmost position where the pattern matches, which is the
\* first digit of the text since everything after (\d+) is optional.
FirstDigit(s) ==
    IF \E i \in 1..Len(s) : IsDigit(s[i])
    THEN Some(CHOOSE i \in 1..Len(s) :
                 IsDigit(s[i]) /\ \A j \in 1..(i - 1) : ~IsDigit(s[j]))
    ELSE None

parse_suricata_version_anchored(text) ==
    LET s == strip(text)
        m == IF s # <<>> /\ IsDigit(s[1]) THEN Some(1) ELSE None
    IN  IF m = None THEN None
        ELSE LET e1 == DigitRunEnd(s, m[1])
                 p2 == SkipDot(s, e1)
                 e2 == DigitRunEnd(s, p2)
                 p3 == SkipDot(s, e2)
             IN  Some(SuricataVersion(
                     Some(int(SubSeq(s, m[1], e1 - 1))),
                     OptGroup(s, p2),
                     OptGroup(s, p3)))

parse_suricata_version_zero(text) ==
    LET s == strip(text)
        m == FirstDigit(s)
    IN  IF m = None THEN None
        ELSE LET e1 == DigitRunEnd(s, m[1])
                 p2 == SkipDot(s, e1)
                 e2 == DigitRunEnd(s, p2)
                 p3 == SkipDot(s, e2)
                 zero(g) == IF g = None THEN Some(0) ELSE g
             IN  Some(SuricataVersion(
                     Some(int(SubSeq(s, m[1], e1 - 1))),
                     zero(OptGroup(s, p2)),
                     zero(OptGroup(s, p3))))

parse_suricata_version(text) ==
    LET s == strip(text)
        m == FirstDigit(s)
    IN  IF m = None THEN None
        ELSE LET e1 == DigitRunEnd(s, m[1])
                 p2 == SkipDot(s, e1)
                 e2 == DigitRunEnd(s, p2)
                 p3 == SkipDot(s, e2)
             IN  Some(SuricataVersion(
                     Some(int(SubSeq(s, m[1], e1 - 1))),
                     OptGroup(s, p2),
                     OptGroup(s, p3)))

\* ---------------------------------------------------------- version_equal

version_equal_cascade(a, b) ==
    IF ~(a.major = b.major) THEN FALSE
    ELSE IF a.minor = None \/ b.minor = None THEN TRUE
    ELSE IF a.minor # b.minor THEN FALSE
    ELSE IF a.patch # None /\ b.patch # None /\ a.patch # b.patch THEN FALSE
    ELSE TRUE

version_equal_left_only(a, b) ==
    IF ~(a.major = b.major) THEN FALSE
    ELSE IF a.minor # None /\ a.minor # b.minor THEN FALSE
    ELSE IF a.patch # None /\ a.patch # b.patch THEN FALSE
    ELSE TRUE

version_equal(a, b) ==
    IF ~(a.major = b.major) THEN FALSE
    ELSE IF a.minor # None /\ b.minor # None /\ a.minor # b.minor THEN FALSE
    ELSE IF a.patch # None /\ b.patch # None /\ a.patch # b.patch THEN FALSE
    ELSE TRUE

\* ------------------------------------------------------------ version_gte

\* x < y on optional integers.  Python 2 orders None below every integer;
\* Python 3 raises TypeError when either side is None.
Less(py, x, y) ==
    IF x # None /\ y # None THEN Returned(x[1] < y[1])
    ELSE IF py = 3 THEN Raised("TypeError", <<>>)
    ELSE Returned(x = None /\ y # None)

version_gte_patch_strict(py, v1, v2) ==
    LET lt(x, y) == Less(py, x, y)
        step(x, y, rest) ==
            IF lt(x, y)[1] = "raise" THEN lt(x, y)
            ELSE IF lt(x, y)[2] THEN Returned(FALSE)
            ELSE IF lt(y, x)[1] = "raise" THEN lt(y, x)
            ELSE IF lt(y, x)[2] THEN Returned(TRUE)
            ELSE rest
        last ==
            IF lt(v2.patch, v1.patch)[1] = "raise" THEN lt(v2.patch, v1.patch)
            ELSE Returned(lt(v2.patch, v1.patch)[2])
    IN  step(v1.major, v2.major, step(v1.minor, v2.minor, last))

version_gte_no_early_true(py, v1, v2) ==
    LET lt(x, y) == Less(py, x, y)
        step(x, y, rest) ==
            IF lt(x, y)[1] = "raise" THEN lt(x, y)
            ELSE IF lt(x, y)[2] THEN Returned(FALSE)
            ELSE rest
    IN  step(v1.major, v2.major,
             step(v1.minor, v2.minor,
                  step(v1.patch, v2.patch, Returned(TRUE))))

version_gte(py, v1, v2) ==
    LET lt(x, y) == Less(py, x, y)
        step(x, y, rest) ==
            \* if x < y: return False / elif x > y: return True / rest
            IF lt(x, y)[1] = "raise" THEN lt(x, y)
            ELSE IF lt(x, y)[2] THEN Returned(FALSE)
            ELSE IF lt(y, x)[1] = "raise" THEN lt(y, x)
            ELSE IF lt(y, x)[2] THEN Returned(TRUE)
            ELSE rest
        last ==
            IF lt(v1.patch, v2.patch)[1] = "raise" THEN lt(v1.patch, v2.patch)
            ELSE IF lt(v1.patch, v2.patch)[2] THEN Returned(FALSE)
            ELSE Returned(TRUE)
    IN  step(v1.major, v2.major, step(v1.minor, v2.minor, last))

\* ------------------------------------------------------------- find_value

\* Decoded JSON / YAML values, tagged with their Python type.  Python's None
\* is JNull: find_value's "return None" and a null in the data are the same
\* value to its callers.
JNull == <<"NoneType", <<>>>>

JInt(n) == <<"int", n>>

JStr(t) == <<"str", t>>

JList(s) == <<"list", s>>

JDict(f) == <<"dict", f>>

TypeOf(v) == v[1]

\* str.split(sep): the pieces between the separators, empty ones included.
RECURSIVE split(_, _)
split(s, sep) ==
    IF \E i \in 1..Len(s) : s[i] = sep
    THEN LET i == CHOOSE i \in 1..Len(s) :
                     s[i] = sep /\ \A j \in 1..(i - 1) : s[j] # sep
         IN  <<SubSeq(s, 1, i - 1)>> \o split(SubSeq(s, i + 1, Len(s)), sep)
    ELSE <<s>>

\* re.match("^(.*)\[(\d+)\]$", part): None, or Some(<<name, index>>).  The
\* digits are all that stands between the last "[" and the final "]".
MatchIndexed(part) ==
    IF /\ Len(part) >= 3
       /\ part[Len(part)] = "]"
       /\ \E k \in 1..(Len(part) - 2) :
             part[k] = "[" /\ IsDigits(SubSeq(part, k + 1, Len(part) - 1))
    THEN LET k == CHOOSE k \in 1..(Len(part) - 2) :
                     part[k] = "[" /\ IsDigits(SubSeq(part, k + 1, Len(part) - 1))
         IN  Some(<<SubSeq(part, 1, k - 1),
                    int(SubSeq(part, k + 1, Len(part) - 1))>>)
    ELSE None

IsSubstring(t, s) ==
    \E i \in 0..(Len(s) - Len(t)) : SubSeq(s, i + 1, i + Len(t)) = t

\* name in obj
Contains(obj, name) ==
    CASE TypeOf(obj) = "dict" -> Returned(name \in DOMAIN obj[2])
      [] TypeOf(obj) = "list" ->
            Returned(\E i \in 1..Len(obj[2]) : obj[2][i] = JStr(name))
      [] TypeOf(obj) = "str" -> Returned(IsSubstring(name, obj[2]))
      [] OTHER -> Raised("TypeError", <<>>)

\* obj[name] with a text name, evaluated after "name in obj" held
GetItem(obj, name) ==
    IF TypeOf(obj) = "dict" THEN Returned(obj[2][name])
    ELSE Raised("TypeError", <<>>)

\* obj[int(index)]
GetIndex(obj, index) ==
    CASE TypeOf(obj) = "list" ->
            IF index < Len(obj[2]) THEN Returned(obj[2][index + 1])
            ELSE Raised("IndexError", <<>>)
      [] TypeOf(obj) = "str" ->
            IF index < Len(obj[2]) THEN Returned(JStr(<<obj[2][index + 1]>>))
            ELSE Raised("IndexError", <<>>)
      [] TypeOf(obj) = "dict" -> Raised("KeyError", <<>>)
      [] OTHER -> Raised("TypeError", <<>>)

RECURSIVE find_value_in(_, _)
find_value_in(parts, obj) ==
    IF parts = <<>> THEN Returned(obj)
    ELSE LET m == MatchIndexed(parts[1])
             name == IF m # None THEN m[1][1] ELSE parts[1]
             index == IF m # None THEN Some(m[1][2]) ELSE None
         IN  IF Contains(obj, name)[1] = "raise" THEN Contains(obj, name)
             ELSE IF ~Contains(obj, name)[2] THEN Returned(JNull)
             ELSE IF GetItem(obj, name)[1] = "raise" THEN GetItem(obj, name)
             ELSE IF index = None
                  THEN find_value_in(Tail(parts), GetItem(obj, name)[2])
             ELSE IF GetIndex(GetItem(obj, name)[2], index[1])[1] = "raise"
                  THEN Returned(JNull)
             ELSE find_value_in(
                      Tail(parts),
                      GetIndex(GetItem(obj, name)[2], index[1])[2])

find_value(name, obj) == find_value_in(split(name, "."), obj)

\* ------------------------------------------------- FilterCheck, StatsCheck

EventTypeKey == <<"e", "v", "e", "n", "t", "_", "t", "y", "p", "e">>

StatsText == <<"s", "t", "a", "t", "s">>

HasKey == <<"h", "a", "s", "-", "k", "e", "y">>

NotHasKey == <<"n", "o", "t", "-", "h", "a", "s", "-", "k", "e", "y">>

TestError(msg) == Raised("TestError", msg)

\* FilterCheck.match: the entries of config["match"] in the order items()
\* yields them; the first entry that fails returns False.
RECURSIVE match(_, _)
match(entries, event) ==
    IF entries = <<>> THEN Returned(TRUE)
    ELSE LET key == entries[1][1]
             expected == entries[1][2]
             val == IF key \in {HasKey, NotHasKey}
                    THEN find_value(expected[2], event)
                    ELSE find_value(key, event)
         IN  IF val[1] = "raise" THEN val
             ELSE IF key = HasKey /\ val[2] = JNull THEN Returned(FALSE)
             ELSE IF key = NotHasKey /\ val[2] # JNull THEN Returned(FALSE)
             ELSE IF key \notin {HasKey, NotHasKey} /\ val[2] # expected
                  THEN Returned(FALSE)
             ELSE match(Tail(entries), event)

\* The loop of FilterCheck.run over the lines of the file: the number of
\* matching events, or the exception match let through.
RECURSIVE CountMatches(_, _)
CountMatches(entries, events) ==
    IF events = <<>> THEN Returned(0)
    ELSE LET m == match(entries, events[1])
             rest == CountMatches(entries, Tail(events))
         IN  IF m[1] = "raise" THEN m
             ELSE IF rest[1] = "raise" THEN rest
             ELSE Returned(rest[2] + (IF m[2] THEN 1 ELSE 0))

\* The file is config["filename"] when declared and eve.json otherwise; the
\* model holds the one file the check reads.  The message starts with the
\* comment when there is one and ends with the filter otherwise.
FilterCheck_run(cfg, file) ==
    IF file = None THEN TestError(<<"does not exist">>)
    ELSE LET n == CountMatches(cfg.match, file[1])
         IN  IF n[1] = "raise" THEN n
             ELSE IF n[2] = cfg.count THEN Returned(TRUE)
             ELSE TestError(<<cfg.comment, "expected", cfg.count,
                              "got", n[2]>>)

\* The first loop of StatsCheck.run: the stats of the last stats event.
RECURSIVE LastStats(_, _)
LastStats(events, stats) ==
    IF events = <<>> THEN Returned(stats)
    ELSE IF EventTypeKey \notin DOMAIN events[1][2] THEN Raised("KeyError", <<>>)
    ELSE IF events[1][2][EventTypeKey] = JStr(StatsText)
         THEN IF StatsText \in DOMAIN events[1][2]
              THEN LastStats(Tail(events), events[1][2][StatsText])
              ELSE Raised("KeyError", <<>>)
    ELSE LastStats(Tail(events), stats)

\* The second loop of StatsCheck.run: the keys of the config in the order
\* iteration yields them.
RECURSIVE CheckStats(_, _)
CheckStats(entries, stats) ==
    IF entries = <<>> THEN Returned(TRUE)
    ELSE LET val == find_value(entries[1][1], stats)
         IN  IF val[1] = "raise" THEN val
             ELSE IF val[2] # entries[1][2]
                  THEN TestError(<<"stats", entries[1][1], "expected",
                                   entries[1][2], "got", val[2]>>)
             ELSE CheckStats(Tail(entries), stats)

StatsCheck_run(cfg, file) ==
    IF file = None THEN Raised("IOError", <<>>)
    ELSE LET stats == LastStats(file[1], JNull)
         IN  IF stats[1] = "raise" THEN stats
             ELSE CheckStats(cfg, stats[2])

\* ------------------------------------------------------------ TestRunner

UnsatisfiedRequirementError(msg) == Raised("UnsatisfiedRequirementError", msg)

\* The first position of a list whose element is not in a set; 0 when every
\* element is in it.  (for x in list: if not <x present>: raise ...)
FirstNotIn(list, present) ==
    IF \E i \in 1..Len(list) : list[i] \notin present
    THEN CHOOSE i \in 1..Len(list) :
             list[i] \notin present /\ \A j \in 1..(i - 1) : list[j] \in present
    ELSE 0

Listed(opt) == IF opt = None THEN <<>> ELSE opt[1]

MinVersionCheck_ignored(py, cfg, sc) == Returned(TRUE)

\* The version checks of check_requires.  parse_suricata_version returns
\* None for a text without a digit, and the attribute access then raises.
MinVersionCheck(py, cfg, sc) ==
    LET requires == cfg.requires[1]
        min_version == parse_suricata_version(requires.min_version[1])
    IN  IF min_version = None \/ sc.version = None
        THEN Raised("AttributeError", <<>>)
        ELSE LET gte == version_gte(py, sc.version[1],
                                    min_version[1])
             IN  IF gte[1] = "raise" THEN gte
                 ELSE IF ~gte[2]
                      THEN UnsatisfiedRequirementError(
                               <<"requires at least version",
                                 requires.min_version[1]>>)
                 ELSE Returned(TRUE)

VersionCheck(cfg, sc) ==
    LET requires == cfg.requires[1]
        requires_version == parse_suricata_version(requires.version[1])
    IN  IF requires_version = None \/ sc.version = None
        THEN Raised("AttributeError", <<>>)
        ELSE IF ~version_equal(sc.version[1], requires_version[1])
             THEN UnsatisfiedRequirementError(
                      <<"only for version", requires.version[1]>>)
        ELSE Returned(TRUE)

\* Whether check_requires asks the test directory for a pcap file.
PcapWanted(cfg, requires) ==
    /\ cfg.command = None
    /\ (IF requires.pcap # None THEN requires.pcap[1] ELSE TRUE)
    /\ cfg.pcap = None

NoRequires ==
    [min_version |-> None, version |-> None, features |-> None, env |-> None,
     files |-> None, script |-> None, pcap |-> None]

\* check_requires: [result, scripts], the second being the number of
\* requires scripts it ran.  world is what the calls to the system answer:
\* the environment variables set, the files that exist and the scripts
\* that exit zero.
check_requires(py, cfg, dir, sc, world) ==
    LET requires == IF cfg.requires = None THEN NoRequires
                    ELSE cfg.requires[1]
        ran(result, n) == [result |-> result, scripts |-> n]
        min == MinVersionCheck(py, cfg, sc)
        ver == VersionCheck(cfg, sc)
        feature == FirstNotIn(Listed(requires.features),
                              sc.features)
        env == FirstNotIn(Listed(requires.env), world.env)
        file == FirstNotIn(Listed(requires.files), world.files)
        script == FirstNotIn(Listed(requires.script), world.scripts)
    IN  IF cfg.requires # None /\ requires = NoRequires
        THEN ran(Returned(TRUE), 0)
        ELSE IF requires.min_version # None /\ min[1] = "raise"
        THEN ran(min, 0)
        ELSE IF requires.version # None /\ ver[1] = "raise"
        THEN ran(ver, 0)
        ELSE IF feature # 0
        THEN ran(UnsatisfiedRequirementError(
                     <<"requires feature", requires.features[1][feature]>>), 0)
        ELSE IF env # 0
        THEN ran(UnsatisfiedRequirementError(
                     <<"requires env var", requires.env[1][env]>>), 0)
        ELSE IF file # 0
        THEN ran(UnsatisfiedRequirementError(
                     <<"requires file", requires.files[1][file]>>), 0)
        ELSE IF script # 0
        THEN ran(UnsatisfiedRequirementError(
                     <<"requires script returned false">>), script)
        ELSE IF PcapWanted(cfg, requires)
                /\ dir.pcap + dir.pcapng = 0
        THEN ran(UnsatisfiedRequirementError(<<"No pcap file found">>),
                 Len(Listed(requires.script)))
        ELSE ran(Returned(None), Len(Listed(requires.script)))

\* check_skip: the first clause that matches raises.
SkipMatch(skip, sc, uid) ==
    IF skip.uid # None /\ uid = skip.uid[1]
    THEN Some(IF skip.msg # None THEN <<skip.msg[1]>>
              ELSE <<"not for uid", skip.uid[1]>>)
    ELSE IF skip.feature # None /\ skip.feature[1] \in sc.features
    THEN Some(IF skip.msg # None THEN <<skip.msg[1]>>
              ELSE <<"not for feature", skip.feature[1]>>)
    ELSE None

check_skip(cfg, sc, uid) ==
    LET clauses == Listed(cfg.skip)
        hit == {i \in 1..Len(clauses) :
                   SkipMatch(clauses[i], sc, uid) # None}
    IN  IF hit = {} THEN Returned(None)
        ELSE UnsatisfiedRequirementError(
                 SkipMatch(clauses[CHOOSE i \in hit : \A j \in hit : i <= j],
                           sc, uid)[1])

\* default_args: the argument vector, of which the model keeps the input
\* (-r) and the rule file (-S).
default_args_first_pcap(cfg, dir) ==
    IF cfg.args = Some("not a list") THEN Raised("AssertionError", <<>>)
    ELSE IF dir.rules > 1
    THEN TestError(<<"More than 1 rule file found">>)
    ELSE Returned([r |-> IF cfg.pcap # None THEN cfg.pcap
                         ELSE IF dir.pcap + dir.pcapng > 0
                         THEN Some("pcaps[0]") ELSE None,
                   S |-> IF dir.rules = 0 THEN "/dev/null"
                         ELSE "rules[0]"])

default_args(cfg, dir) ==
    IF cfg.args = Some("not a list") THEN Raised("AssertionError", <<>>)
    ELSE IF cfg.pcap = None /\ dir.pcap + dir.pcapng > 1
    THEN TestError(<<"More than 1 pcap file found">>)
    ELSE IF dir.rules > 1
    THEN TestError(<<"More than 1 rule file found">>)
    ELSE Returned([r |-> IF cfg.pcap # None THEN cfg.pcap
                         ELSE IF dir.pcap + dir.pcapng > 0
                         THEN Some("pcaps[0]") ELSE None,
                   S |-> IF dir.rules = 0 THEN "/dev/null"
                         ELSE "rules[0]"])

\* What one entry of config["checks"] does, given what its run() answers.
\* A filter or stats run returns True or raises; a shell run may return
\* False, which check() turns into a TestError; any other key raises.
CheckEntry(kind, answer) ==
    IF kind \notin {"filter", "shell", "stats"}
    THEN TestError(<<"Unknown check type", kind>>)
    ELSE IF answer = Returned(FALSE)
    THEN TestError(<<"did not match", kind>>)
    ELSE answer

check_runs_every_check(cfg, dir, answers, status) ==
    LET checks == Listed(cfg.checks)
        failing == {i \in 1..Len(checks) :
                       CheckEntry(checks[i], answers[i])[1] = "raise"}
        first == CHOOSE i \in failing : \A j \in failing : i <= j
    IN  IF failing # {}
        THEN [result |-> CheckEntry(checks[first], answers[first]),
              checks |-> Len(checks), legacy |-> FALSE]
        ELSE IF ~dir.check_sh
        THEN [result |-> Returned(TRUE), checks |-> Len(checks),
              legacy |-> FALSE]
        ELSE [result |-> Returned(status = 0), checks |-> Len(checks),
              legacy |-> TRUE]

\* check: [result, checks, legacy]: what it returns or raises, the number
\* of declared checks it ran and whether it ran check.sh.  answers are the
\* answers of the declared checks, status the exit status of check.sh.
check(cfg, dir, answers, status) ==
    LET checks == Listed(cfg.checks)
        failing == {i \in 1..Len(checks) :
                       CheckEntry(checks[i], answers[i])[1] = "raise"}
        first == CHOOSE i \in failing : \A j \in failing : i <= j
    IN  IF failing # {}
        THEN [result |-> CheckEntry(checks[first], answers[first]),
              checks |-> first, legacy |-> FALSE]
        ELSE IF ~dir.check_sh
        THEN [result |-> Returned(TRUE), checks |-> Len(checks),
              legacy |-> FALSE]
        ELSE [result |-> Returned(status = 0), checks |-> Len(checks),
              legacy |-> TRUE]

\* ------------------------------------------------------------ input domains

\* The characters version texts are drawn from: two digits, the separator,
\* a non-numeric character and a blank.
TextAlphabet == {"0", "4", ".", "-", " "}

TextsOfLen(n) == [1..n -> TextAlphabet]

Optional(S) == {None} \cup {Some(x) : x \in S}

\* What parse_suricata_version can return: major is always present, minor
\* and patch are present or absent independently ("4..3" has no minor).
Versions ==
    {SuricataVersion(Some(mj), mn, pt) :
        mj \in 0..MaxComponent,
        mn \in Optional(0..MaxComponent),
        pt \in Optional(0..MaxComponent)}

\* Field names: 1 to n parts joined by dots, each a key with or without an
\* index in brackets.
KeyA == <<"a">>

KeyB == <<"b">>

DigitChar(n) == CHOOSE c \in Digits : DigitVal(c) = n

NameParts ==
    {k \o ix : k \in {KeyA, KeyB},
               ix \in {<<>>} \cup {<<"[", DigitChar(i), "]">> : i \in 0..MaxIndex}}

RECURSIVE FieldNames(_)
FieldNames(n) ==
    IF n = 1 THEN NameParts
    ELSE {f \o <<".">> \o p : f \in FieldNames(n - 1), p \in NameParts}

\* Objects: a mapping of the keys a and b to scalars, lists of strings, or
\* a nested mapping of the key b to a scalar or a list of strings.
DictsOver(keys, values) == UNION {{JDict(f) : f \in [d -> values]} : d \in SUBSET keys}

ListsOver(values, n) ==
    UNION {{JList(l) : l \in [1..k -> values]} : k \in 0..n}

FindLeaves(n) ==
    {JNull, JInt(1), JStr(KeyB)} \cup ListsOver({JStr(KeyA), JStr(KeyB)}, n)

FindObjects(n) ==
    DictsOver({KeyA, KeyB}, FindLeaves(n) \cup DictsOver({KeyB}, FindLeaves(n)))

FindIdle == path = <<>> /\ root = JNull /\ found = NotRun

\* Events: alerts whose field a is a mapping, a scalar or missing, and stats
\* snapshots whose counter a is a mapping or a scalar.
AlertText == <<"a", "l", "e", "r", "t">>

PathAB == <<"a", ".", "b">>

FieldValues == {JDict(KeyB :> JInt(1)), JDict(KeyB :> JInt(2)), JInt(1)}

Events ==
    {JDict(EventTypeKey :> JStr(AlertText))}
    \cup {JDict((EventTypeKey :> JStr(AlertText)) @@ (KeyA :> x)) :
            x \in FieldValues}
    \cup {JDict((EventTypeKey :> JStr(StatsText))
                 @@ (StatsText :> JDict(KeyA :> x))) : x \in FieldValues}

\* The event log: no file, or a file of 0 to n events.
EventLogs(n) == {None} \cup UNION {{Some(l) : l \in [1..k -> Events]} : k \in 0..n}

\* Sequences of 0 to n entries with distinct keys.
EntryLists(entries, n) ==
    UNION {{l \in [1..k -> entries] :
               \A i, j \in 1..k : i # j => l[i][1] # l[j][1]} : k \in 0..n}

MatchEntries ==
    {<<EventTypeKey, JStr(AlertText)>>, <<PathAB, JInt(1)>>,
     <<KeyA, JInt(1)>>, <<HasKey, JStr(PathAB)>>, <<NotHasKey, JStr(KeyA)>>}

FilterConfigs(n, counts) ==
    {[match |-> m, count |-> c, comment |-> t] :
        m \in EntryLists(MatchEntries, n) \ {<<>>},
        c \in counts,
        t \in {None, Some("comment")}}

StatsEntries == {<<PathAB, JInt(1)>>, <<PathAB, JInt(2)>>, <<KeyA, JInt(1)>>}

Checks ==
    {<<"filter", c>> : c \in FilterConfigs(MaxEntries, 0..MaxEvents)}
    \cup {<<"stats", c>> : c \in EntryLists(StatsEntries, MaxEntries)}

CheckIdle == eve = None /\ declared = <<"none">> /\ verdict = NotRun

\* Tests.  A key of test.yaml that is absent is None.
DefaultConfig ==
    [requires |-> None, skip |-> None, command |-> None, pcap |-> None,
     args |-> None, count |-> None, exit_code |-> None, checks |-> None,
     pre_check |-> None, setup |-> None]

DefaultDirectory == [pcap |-> 1, pcapng |-> 0, rules |-> 0, check_sh |-> FALSE]

Text1 == <<"1">>

Text100 == <<"1", ".", "0", ".", "0">>

Text200 == <<"2", ".", "0", ".", "0">>

Declared(requires) ==
    Cardinality({k \in DOMAIN requires : requires[k] # None})

\* The "requires" blocks with at most n keys; the one with none is the
\* empty block.
RequiresBlocks(n) ==
    {r \in [min_version : Optional({Text1, Text100, Text200}),
            version : Optional({Text1, Text200}),
            features : Optional({<<"f">>}),
            env : Optional({<<"E">>}),
            files : Optional({<<"F">>}),
            script : Optional({<<"S">>}),
            pcap : Optional(BOOLEAN)] : Declared(r) <= n}

SkipLists ==
    {<<[uid |-> Some(0), feature |-> None, msg |-> None]>>,
     <<[uid |-> None, feature |-> Some("f"), msg |-> Some("no f")]>>,
     <<[uid |-> Some(0), feature |-> None, msg |-> None],
       [uid |-> None, feature |-> Some("f"), msg |-> None]>>}

CheckKinds == {"filter", "shell", "stats", "jq"}

CheckLists(n) == UNION {[1..k -> CheckKinds] : k \in 0..n}

\* Tests that differ in what the gate reads.
GateTests ==
    {<<[DefaultConfig EXCEPT !.requires = r, !.skip = s, !.command = c,
                             !.pcap = p],
       [DefaultDirectory EXCEPT !.pcap = n, !.pcapng = g]>> :
        r \in Optional(RequiresBlocks(MaxRequires)),
        s \in Optional(SkipLists),
        c \in Optional({"cmd"}),
        p \in Optional({"in.pcap"}),
        n \in 0..1,
        g \in {0}}

\* Tests that differ in what the argument vector is built from.
ArgsTests ==
    {<<[DefaultConfig EXCEPT !.command = c, !.pcap = p, !.args = a],
       [DefaultDirectory EXCEPT !.pcap = n, !.pcapng = g, !.rules = u]>> :
        c \in Optional({"cmd"}),
        p \in Optional({"in.pcap"}),
        a \in Optional({"list", "not a list"}),
        n \in 0..MaxFiles,
        g \in 0..1,
        u \in 0..MaxFiles}

\* Tests that differ in how often the subject runs and how it is verified.
RunTests ==
    {<<[DefaultConfig EXCEPT !.count = k, !.exit_code = e, !.setup = s,
                             !.checks = l, !.pre_check = q],
       [DefaultDirectory EXCEPT !.check_sh = h]>> :
        k \in Optional(0..MaxCount),
        e \in Optional({0, 1}),
        s \in Optional({<<"setup.sh">>}),
        l \in {None},
        q \in {None},
        h \in BOOLEAN}
    \cup
    {<<[DefaultConfig EXCEPT !.count = k, !.checks = l, !.pre_check = q],
       [DefaultDirectory EXCEPT !.check_sh = h]>> :
        k \in {None, Some(MaxCount)},
        l \in Optional(CheckLists(MaxChecks)),
        q \in Optional({"pre.sh"}),
        h \in BOOLEAN}

\* What "suricata -V" prints, of which the model keeps the end.
SubjectVersionTexts ==
    {<<"v", " ", "1", ".", "0", ".", "0">>,
     <<"1", ".", "2", ".", "0", "-", "d", "e", "v">>}

\* No call of check() yet.
NotVerified ==
    [calls |-> 0, checks |-> 0, legacy |-> 0, ran |-> <<>>, script |-> None]

\* stdout and stderr as open(..., "w") leaves them.
EmptyFiles == [i \in {1, 2} |-> [buffer |-> <<>>, disk |-> <<>>]]

PipeIdle ==
    /\ pending = <<>>
    /\ pipe = <<<<>>, <<>>>>
    /\ written = <<<<>>, <<>>>>
    /\ files = EmptyFiles

SuiteIdle ==
    /\ dirs = {}
    /\ patterns = <<>>
    /\ tests = <<>>
    /\ position = 0
    /\ fail = FALSE

RunIdle ==
    /\ output = {}
    /\ PipeIdle
    /\ SuiteIdle
    /\ config = DefaultConfig
    /\ directory = DefaultDirectory
    /\ suricata_config = [version |-> None, features |-> {}]
    /\ pc = "idle"
    /\ args = None
    /\ rep = 0
    /\ proc = "none"
    /\ code = None
    /\ readers = <<>>
    /\ spawned = 0
    /\ helpers = 0
    /\ verified = NotVerified
    /\ returned = NotRun
    /\ tally = [passed |-> 0, failed |-> 0, skipped |-> 0]

\* ------------------------------------------------- the version operations

ParseIdle == buf = <<>> /\ parsed = NotRun

CompareIdle ==
    /\ verA = SuricataVersion(Some(0), None, None)
    /\ verB = SuricataVersion(Some(0), None, None)
    /\ verC = SuricataVersion(Some(0), None, None)
    /\ compared = NotRun

InitParse ==
    /\ python \in {2, 3}
    /\ FindIdle
    /\ CheckIdle
    /\ RunIdle
    /\ \E n \in 0..MaxLen : buf \in TextsOfLen(n)
    /\ parsed = NotRun
    /\ CompareIdle

Parse ==
    /\ parsed = NotRun
    /\ parsed' = Returned(parse_suricata_version(buf))
    /\ UNCHANGED <<python, buf, verA, verB, verC, compared, findVars, checkVars,
                   runVars>>

NextParse == Parse

SpecParse == InitParse /\ [][NextParse]_vars

InitVersion ==
    /\ python \in {2, 3}
    /\ FindIdle
    /\ CheckIdle
    /\ RunIdle
    /\ ParseIdle
    /\ verA \in Versions
    /\ verB \in Versions
    /\ verC = SuricataVersion(Some(0), None, None)
    /\ compared = NotRun

VersionEqual ==
    /\ compared = NotRun
    /\ compared' = <<"version_equal", Returned(version_equal(verA, verB))>>
    /\ UNCHANGED <<python, buf, parsed, verA, verB, verC, findVars, checkVars,
                   runVars>>

VersionGte ==
    /\ compared = NotRun
    /\ compared' = <<"version_gte", version_gte(python, verA, verB)>>
    /\ UNCHANGED <<python, buf, parsed, verA, verB, verC, findVars, checkVars,
                   runVars>>

NextVersion == VersionEqual \/ VersionGte

SpecVersion == InitVersion /\ [][NextVersion]_vars

\* ------------------------------------- the comparisons of three versions

\* The versions "suricata -V" reports: major, minor and patch all present.
FullVersions ==
    {SuricataVersion(Some(mj), Some(mn), Some(pt)) :
        mj \in 0..MaxComponent, mn \in 0..MaxComponent,
        pt \in 0..MaxComponent}

InitOrder ==
    /\ python \in {2, 3}
    /\ FindIdle
    /\ CheckIdle
    /\ RunIdle
    /\ ParseIdle
    /\ verA \in FullVersions
    /\ verB \in FullVersions
    /\ verC \in FullVersions
    /\ compared = NotRun

\* version_equal and version_gte applied to the pairs of the three versions.
CompareAll ==
    /\ compared = NotRun
    /\ compared' =
          <<"order",
            [equal |-> Returned(version_equal(verA, verB)),
             aa |-> version_gte(python, verA, verA),
             ab |-> version_gte(python, verA, verB),
             ba |-> version_gte(python, verB, verA),
             bc |-> version_gte(python, verB, verC),
             ac |-> version_gte(python, verA, verC)]>>
    /\ UNCHANGED <<python, buf, parsed, verA, verB, verC, findVars, checkVars,
                   runVars>>

NextOrder == CompareAll

SpecOrder == InitOrder /\ [][NextOrder]_vars

\* ------------------------------------------------ the find_value operation

InitFind ==
    /\ python \in {2, 3}
    /\ ParseIdle
    /\ CompareIdle
    /\ CheckIdle
    /\ RunIdle
    /\ \E n \in 1..MaxParts : path \in FieldNames(n)
    /\ root \in FindObjects(MaxList)
    /\ found = NotRun

FindValue ==
    /\ found = NotRun
    /\ found' = find_value(path, root)
    /\ UNCHANGED <<python, versionVars, path, root, checkVars, runVars>>

NextFind == FindValue

SpecFind == InitFind /\ [][NextFind]_vars

\* ------------------------------------------------------ the check operations

InitChecks ==
    /\ python \in {2, 3}
    /\ ParseIdle
    /\ CompareIdle
    /\ FindIdle
    /\ RunIdle
    /\ eve \in EventLogs(MaxEvents)
    /\ declared \in Checks
    /\ verdict = NotRun

FilterCheckRun ==
    /\ verdict = NotRun
    /\ declared[1] = "filter"
    /\ verdict' = FilterCheck_run(declared[2], eve)
    /\ UNCHANGED <<python, versionVars, findVars, eve, declared, runVars>>

StatsCheckRun ==
    /\ verdict = NotRun
    /\ declared[1] = "stats"
    /\ verdict' = StatsCheck_run(declared[2], eve)
    /\ UNCHANGED <<python, versionVars, findVars, eve, declared, runVars>>

NextChecks == FilterCheckRun \/ StatsCheckRun

SpecChecks == InitChecks /\ [][NextChecks]_vars

\* ------------------------------------------------ main and TestRunner.run

ExitCodes == {0, 1}

Uids == {0, 1000}

\* What the system answers check_requires: the environment variables set,
\* the files that exist, the requires scripts that exit zero.
Worlds == [env : SUBSET {"E"}, files : SUBSET {"F"}, scripts : SUBSET {"S"}]

\* What run() answers for a declared check of a kind.
Answers(kind) ==
    CASE kind \in {"filter", "stats"} ->
            {Returned(TRUE), TestError(<<"mismatch">>),
             Raised("TypeError", <<>>)}
      [] kind = "shell" ->
            {Returned(TRUE), Returned(FALSE), TestError(<<"exit status">>)}
      [] OTHER -> {Returned(TRUE)}

\* The subjects under test: what "suricata -V" and the build give.
Subjects ==
    [version : {parse_suricata_version(t) : t \in SubjectVersionTexts},
     features : SUBSET {"f"}]

DefaultSubject ==
    [version |-> Some(SuricataVersion(Some(1), Some(0), Some(0))),
     features |-> {}]

\* A test of one of three families: in the first the gate's inputs vary
\* (the test's requires and skip, the subject, the interpreter), in the
\* others what the argument vector is built from and how the subject is
\* run and verified.
Init ==
    /\ ParseIdle
    /\ CompareIdle
    /\ FindIdle
    /\ CheckIdle
    /\ PipeIdle
    /\ SuiteIdle
    /\ \/ /\ \E t \in GateTests : config = t[1] /\ directory = t[2]
          /\ suricata_config \in Subjects
          /\ python \in {2, 3}
          /\ output = {0}
       \/ /\ \E t \in ArgsTests \cup RunTests :
                config = t[1] /\ directory = t[2]
          /\ suricata_config = DefaultSubject
          /\ python = 2
          /\ output \in {{}, {0}}
    /\ pc = "check_requires"
    /\ args = None
    /\ rep = 0
    /\ proc = "none"
    /\ code = None
    /\ readers = <<>>
    /\ spawned = 0
    /\ helpers = 0
    /\ verified = NotVerified
    /\ returned = NotRun
    /\ tally = [passed |-> 0, failed |-> 0, skipped |-> 0]

idleVars == <<versionVars, findVars, checkVars, pipeVars, suiteVars>>

testVars == <<python, config, directory, suricata_config>>

\* run(): an exception leaves it; a value is returned.
Leave(result) ==
    /\ returned' = result
    /\ pc' = IF result[1] = "raise" THEN "raised" ELSE "returned"

CheckRequires_after_cleanup ==
    /\ pc = "check_requires"
    /\ \E world \in Worlds :
          LET r == check_requires(python, config, directory, suricata_config,
                                  world)
          IN  /\ helpers' = helpers + r.scripts
              /\ output' = {1}
              /\ IF r.result[1] = "raise" THEN Leave(r.result)
                 ELSE pc' = "check_skip" /\ UNCHANGED returned
    /\ UNCHANGED <<idleVars, testVars, args, rep, proc, code, readers,
                   spawned, verified, tally>>

\* self.check_requires()
CheckRequires ==
    /\ pc = "check_requires"
    /\ \E world \in Worlds :
          LET r == check_requires(python, config, directory, suricata_config,
                                  world)
          IN  /\ helpers' = helpers + r.scripts
              /\ IF r.result[1] = "raise" THEN Leave(r.result)
                 ELSE pc' = "check_skip" /\ UNCHANGED returned
    /\ UNCHANGED <<idleVars, testVars, output, args, rep, proc, code, readers,
                   spawned, verified, tally>>

\* self.check_skip()
CheckSkip ==
    /\ pc = "check_skip"
    /\ \E uid \in Uids :
          LET r == check_skip(config, suricata_config, uid)
          IN  IF r[1] = "raise" THEN Leave(r)
              ELSE pc' = "args" /\ UNCHANGED returned
    /\ UNCHANGED <<idleVars, testVars, output, args, rep, proc, code, readers,
                   spawned, helpers, verified, tally>>

\* args = self.config["command"] or self.default_args()
BuildArgs ==
    /\ pc = "args"
    /\ LET r == IF config.command # None
                THEN Returned([shell |-> config.command[1]])
                ELSE default_args(config, directory)
       IN  IF r[1] = "raise" THEN Leave(r) /\ UNCHANGED args
           ELSE args' = Some(r[2]) /\ pc' = "loop" /\ UNCHANGED returned
    /\ UNCHANGED <<idleVars, testVars, output, rep, proc, code, readers, spawned,
                   helpers, verified, tally>>

Count == IF config.count # None THEN config.count[1] ELSE 1

ExpectedExitCode == IF config.exit_code # None THEN config.exit_code[1] ELSE 0

Prepare_once_more ==
    /\ pc = "loop" /\ rep <= Count
    /\ \E failing \in 0..Len(Listed(config.setup)) :
          IF failing # 0
          THEN helpers' = helpers + failing
               /\ output' \in SUBSET {rep + 1}
               /\ Leave(Raised("CalledProcessError", <<>>))
          ELSE helpers' = helpers + Len(Listed(config.setup))
               /\ output' = {rep + 1}
               /\ pc' = "spawn" /\ UNCHANGED returned
    /\ UNCHANGED <<idleVars, testVars, args, rep, proc, code, readers,
                   spawned, verified, tally>>

Prepare_keeps_output ==
    /\ pc = "loop" /\ rep < Count
    /\ \E failing \in 0..Len(Listed(config.setup)) :
          IF failing # 0
          THEN helpers' = helpers + failing
               /\ output' \in SUBSET {rep + 1}
               /\ Leave(Raised("CalledProcessError", <<>>))
          ELSE helpers' = helpers + Len(Listed(config.setup))
               /\ output' = output \cup {rep + 1}
               /\ pc' = "spawn" /\ UNCHANGED returned
    /\ UNCHANGED <<idleVars, testVars, args, rep, proc, code, readers,
                   spawned, verified, tally>>

\* The head of an iteration: the output directory is removed and made
\* again, the setup scripts run in it (check_call: a script that fails
\* raises CalledProcessError), stdout, stderr and cmdline are opened.
Prepare ==
    /\ pc = "loop" /\ rep < Count
    /\ \E failing \in 0..Len(Listed(config.setup)) :
          IF failing # 0
          THEN helpers' = helpers + failing
               /\ output' \in SUBSET {rep + 1}
               /\ Leave(Raised("CalledProcessError", <<>>))
          ELSE helpers' = helpers + Len(Listed(config.setup))
               /\ output' = {rep + 1}
               /\ pc' = "spawn" /\ UNCHANGED returned
    /\ UNCHANGED <<idleVars, testVars, args, rep, proc, code, readers,
                   spawned, verified, tally>>

\* The loop is over: print OK, return True.
Finish ==
    /\ pc = "loop" /\ rep >= Count
    /\ Leave(Returned(TRUE))
    /\ UNCHANGED <<idleVars, testVars, output, args, rep, proc, code, readers,
                   spawned, helpers, verified, tally>>

\* p = subprocess.Popen(args, ...)
Spawn ==
    /\ pc = "spawn"
    /\ proc' = "running"
    /\ code' = None
    /\ spawned' = spawned + 1
    /\ pc' = "start_stdout"
    /\ UNCHANGED <<idleVars, testVars, output, args, rep, readers, helpers,
                   verified, returned, tally>>

\* self.start_reader(p.stdout, stdout); self.start_reader(p.stderr, stderr)
StartReader ==
    /\ pc \in {"start_stdout", "start_stderr"}
    /\ readers' = Append(readers, "running")
    /\ pc' = IF pc = "start_stdout" THEN "start_stderr" ELSE "join"
    /\ UNCHANGED <<idleVars, testVars, output, args, rep, proc, code, spawned,
                   helpers, verified, returned, tally>>

\* The subject process ends with some exit status; its pipes close.
ProcessExit ==
    /\ proc = "running"
    /\ proc' = "exited"
    /\ code' \in {Some(c) : c \in ExitCodes}
    /\ UNCHANGED <<idleVars, testVars, output, pc, args, rep, readers, spawned,
                   helpers, verified, returned, tally>>

\* pipe_reader: "for line in fileobj" ends at end of file, which the
\* subject's exit brings, and the thread with it; line.decode() and
\* output.write(line) raise on a line they cannot convert, which ends the
\* thread at any time.
ReaderEnds ==
    /\ \E i \in 1..Len(readers) :
          /\ readers[i] = "running"
          /\ readers' = [readers EXCEPT ![i] = "done"]
    /\ UNCHANGED <<idleVars, testVars, output, pc, args, rep, proc, code, spawned,
                   helpers, verified, returned, tally>>

JoinReaders_no_wait ==
    /\ pc = "join"
    /\ pc' = "wait"
    /\ UNCHANGED <<idleVars, testVars, output, args, rep, proc, code, readers,
                   spawned, helpers, verified, returned, tally>>

\* for r in self.readers: r.join()
JoinReaders ==
    /\ pc = "join"
    /\ \A i \in 1..Len(readers) : readers[i] = "done"
    /\ pc' = "wait"
    /\ UNCHANGED <<idleVars, testVars, output, args, rep, proc, code, readers,
                   spawned, helpers, verified, returned, tally>>

\* r = p.wait()
Wait ==
    /\ pc = "wait"
    /\ proc = "exited"
    /\ proc' = "reaped"
    /\ pc' = "exit_code"
    /\ UNCHANGED <<idleVars, testVars, output, args, rep, code, readers, spawned,
                   helpers, verified, returned, tally>>

CompareExitCode_lenient ==
    /\ pc = "exit_code"
    /\ pc' = "check"
    /\ UNCHANGED <<idleVars, testVars, output, args, rep, proc, code, readers,
                   spawned, helpers, verified, returned, tally>>

\* if r != expected_exit_code: raise TestError(...)
CompareExitCode ==
    /\ pc = "exit_code"
    /\ IF code[1] # ExpectedExitCode
       THEN Leave(TestError(<<"got exit code", code[1], "expected",
                              ExpectedExitCode>>))
       ELSE pc' = "check" /\ UNCHANGED returned
    /\ UNCHANGED <<idleVars, testVars, output, args, rep, proc, code, readers,
                   spawned, helpers, verified, tally>>

\* if not self.check(): return False
Check ==
    /\ pc = "check"
    /\ \E answers \in [1..Len(Listed(config.checks)) ->
                          UNION {Answers(k) : k \in CheckKinds}],
          status \in ExitCodes :
          /\ \A i \in 1..Len(answers) :
                answers[i] \in Answers(config.checks[1][i])
          /\ LET c == check(config, directory, answers, status)
                 shells == Cardinality({i \in 1..c.checks :
                                           config.checks[1][i] = "shell"})
             IN  /\ verified' =
                        [calls |-> verified.calls + 1,
                         checks |-> verified.checks + c.checks,
                         legacy |-> verified.legacy
                                       + (IF c.legacy THEN 1 ELSE 0),
                         ran |-> [i \in 1..c.checks |->
                                     <<config.checks[1][i],
                                       CheckEntry(config.checks[1][i],
                                                  answers[i])[1] = "return">>],
                         script |-> IF c.legacy THEN Some(status) ELSE None]
                 /\ helpers' = helpers + shells
                        + (IF config.pre_check # None THEN 1 ELSE 0)
                        + (IF c.legacy THEN 1 ELSE 0)
                 /\ IF c.result = Returned(TRUE)
                    THEN rep' = rep + 1 /\ pc' = "loop" /\ UNCHANGED returned
                    ELSE Leave(c.result) /\ UNCHANGED rep
    /\ UNCHANGED <<idleVars, testVars, output, args, proc, code, readers, spawned,
                   tally>>

\* main: the try / except around test_runner.run().
Outcome(result) ==
    CASE result = Returned(TRUE) -> "passed"
      [] result = Returned(FALSE) -> "failed"
      [] result[1] = "raise" /\ result[2] = "UnsatisfiedRequirementError"
            -> "skipped"
      [] result[1] = "raise" /\ result[2] = "TestError" -> "failed"
      [] OTHER -> "raise"

Report ==
    /\ pc \in {"returned", "raised"}
    /\ IF Outcome(returned) = "raise"
       THEN pc' = "crashed" /\ UNCHANGED tally
       ELSE /\ pc' = "reported"
            /\ tally' = [tally EXCEPT ![Outcome(returned)] = @ + 1]
    /\ UNCHANGED <<idleVars, testVars, output, args, rep, proc, code, readers,
                   spawned, helpers, verified, returned>>

Next ==
    \/ CheckRequires
    \/ CheckSkip
    \/ BuildArgs
    \/ Prepare
    \/ Finish
    \/ Spawn
    \/ StartReader
    \/ ProcessExit
    \/ ReaderEnds
    \/ JoinReaders
    \/ Wait
    \/ CompareExitCode
    \/ Check
    \/ Report

Spec == Init /\ [][Next]_vars

\* ------------------------------------------- the subject's output pipes

\* A line of output: the stream it goes to (1 stdout, 2 stderr) and whether
\* pipe_reader can decode and write it.
Lines == [stream : {1, 2}, ok : BOOLEAN]

Outputs(n) == UNION {[1..k -> Lines] : k \in 0..n}

\* One repetition of a test without test.yaml, from the Popen call on.
InitPipes ==
    /\ python \in {2, 3}
    /\ ParseIdle
    /\ CompareIdle
    /\ FindIdle
    /\ CheckIdle
    /\ SuiteIdle
    /\ config = DefaultConfig
    /\ directory = DefaultDirectory
    /\ suricata_config = [version |-> None, features |-> {}]
    /\ pc = "spawn"
    /\ args = Some([r |-> Some("pcaps[0]"), S |-> "/dev/null"])
    /\ rep = 0
    /\ proc = "none"
    /\ code = None
    /\ readers = <<>>
    /\ spawned = 0
    /\ helpers = 0
    /\ verified = NotVerified
    /\ returned = NotRun
    /\ tally = [passed |-> 0, failed |-> 0, skipped |-> 0]
    /\ output = {1}
    /\ pending \in Outputs(MaxOutput)
    /\ pipe = <<<<>>, <<>>>>
    /\ written = <<<<>>, <<>>>>
    /\ files = EmptyFiles

pipeFrame ==
    <<versionVars, findVars, checkVars, suiteVars, testVars, output, args,
      rep, spawned, helpers, verified, returned, tally>>

\* The subject writes its next line; write() blocks while the pipe is full.
SubjectWrites ==
    /\ proc = "running"
    /\ pending # <<>>
    /\ LET line == Head(pending)
           id == Len(written[1]) + Len(written[2]) + 1
       IN  /\ Len(pipe[line.stream]) < PipeCapacity
           /\ pipe' = [pipe EXCEPT ![line.stream] =
                                      Append(@, [id |-> id, ok |-> line.ok])]
           /\ written' = [written EXCEPT ![line.stream] = Append(@, id)]
    /\ pending' = Tail(pending)
    /\ UNCHANGED <<pipeFrame, pc, proc, code, readers, files>>

\* The subject has written everything and exits, which closes its ends of
\* the pipes.
SubjectExits ==
    /\ proc = "running"
    /\ pending = <<>>
    /\ proc' = "exited"
    /\ code' \in {Some(c) : c \in ExitCodes}
    /\ UNCHANGED <<pipeFrame, pc, readers, pipeVars>>

\* output.write(line) on a file opened with open(..., "w"): the line goes
\* to the writer's buffer, which is written to disk when it is full; run()
\* neither flushes nor closes the file.
Write(file, id) ==
    IF Len(file.buffer) + 1 >= BufferCapacity
    THEN [buffer |-> <<>>, disk |-> file.disk \o Append(file.buffer, id)]
    ELSE [file EXCEPT !.buffer = Append(@, id)]

\* pipe_reader takes a line: line.decode() and output.write(line), either of
\* which raises on a line it cannot convert and ends the thread, the pipe
\* staying open.
ReaderReads(i) ==
    /\ i <= Len(readers)
    /\ readers[i] = "running"
    /\ pipe[i] # <<>>
    /\ pipe' = [pipe EXCEPT ![i] = Tail(@)]
    /\ IF Head(pipe[i]).ok
       THEN /\ files' = [files EXCEPT ![i] = Write(@, Head(pipe[i]).id)]
            /\ UNCHANGED readers
       ELSE /\ readers' = [readers EXCEPT ![i] = "done"]
            /\ UNCHANGED files
    /\ UNCHANGED <<pipeFrame, pc, proc, code, pending, written>>

\* "for line in fileobj" ends: the pipe is empty and the subject has closed
\* it.
ReaderEof(i) ==
    /\ i <= Len(readers)
    /\ readers[i] = "running"
    /\ pipe[i] = <<>>
    /\ proc # "running"
    /\ readers' = [readers EXCEPT ![i] = "done"]
    /\ UNCHANGED <<pipeFrame, pc, proc, code, pipeVars>>

NextPipes ==
    \/ Spawn
    \/ StartReader
    \/ SubjectWrites
    \/ SubjectExits
    \/ \E i \in {1, 2} : ReaderReads(i)
    \/ \E i \in {1, 2} : ReaderEof(i)
    \/ JoinReaders
    \/ Wait
    \/ CompareExitCode

\* The operating system runs every process and thread that can take a step.
SpecPipes == InitPipes /\ [][NextPipes]_vars /\ WF_vars(NextPipes)

\* ------------------------------------------------------ main: the suite

\* The names of the directories under the tests directory.
DirNames == {<<"a">>, <<"a", "b">>, <<"b">>}

PatternTexts == {<<"a">>, <<"b">>}

CharCode == [a |-> 97, b |-> 98]

\* s < t on strings.
RECURSIVE StrLess(_, _)
StrLess(s, t) ==
    IF t = <<>> THEN FALSE
    ELSE IF s = <<>> THEN TRUE
    ELSE IF Head(s) # Head(t) THEN CharCode[Head(s)] < CharCode[Head(t)]
    ELSE StrLess(Tail(s), Tail(t))

\* The appends the loop over args.patterns makes for one directory.
Appends(name, pats) ==
    IF pats = <<>> THEN 1
    ELSE Cardinality({i \in 1..Len(pats) : IsSubstring(pats[i], name)})

\* tests after the walk and tests.sort().
RECURSIVE Gathered(_, _)
Gathered(names, pats) ==
    IF names = {} THEN <<>>
    ELSE LET least == CHOOSE n \in names :
                          \A m \in names \ {n} : StrLess(n, m)
         IN  [i \in 1..Appends(least, pats) |-> least]
                 \o Gathered(names \ {least}, pats)

\* What test_runner.run() can return or raise.
RunResults ==
    {Returned(TRUE), Returned(FALSE),
     UnsatisfiedRequirementError(<<"No pcap file found">>),
     TestError(<<"More than 1 pcap file found">>),
     Raised("TypeError", <<>>)}

InitSuite ==
    /\ python \in {2, 3}
    /\ ParseIdle
    /\ CompareIdle
    /\ FindIdle
    /\ CheckIdle
    /\ PipeIdle
    /\ config = DefaultConfig
    /\ directory = DefaultDirectory
    /\ suricata_config = [version |-> None, features |-> {}]
    /\ args = None
    /\ rep = 0
    /\ proc = "none"
    /\ code = None
    /\ readers = <<>>
    /\ spawned = 0
    /\ helpers = 0
    /\ verified = NotVerified
    /\ output = {}
    /\ returned = NotRun
    /\ tally = [passed |-> 0, failed |-> 0, skipped |-> 0]
    /\ dirs \in SUBSET DirNames
    /\ \E n \in 0..MaxPatterns : patterns \in [1..n -> PatternTexts]
    /\ fail \in BOOLEAN
    /\ tests = <<>>
    /\ position = 0
    /\ pc = "gather"

suiteFrame ==
    <<versionVars, findVars, checkVars, pipeVars, testVars, output, args,
      rep, proc, code, readers, spawned, helpers, verified>>

\* The walk over the tests directory and tests.sort().
Gather ==
    /\ pc = "gather"
    /\ tests' = Gathered(dirs, patterns)
    /\ pc' = "run"
    /\ UNCHANGED <<suiteFrame, dirs, patterns, position, fail, returned,
                   tally>>

\* One turn of "for dirpath in tests".
RunTest ==
    /\ pc = "run"
    /\ position < Len(tests)
    /\ position' = position + 1
    /\ \E result \in RunResults :
          /\ returned' = result
          /\ IF Outcome(result) = "raise"
             THEN pc' = "crashed" /\ UNCHANGED tally
             ELSE /\ tally' = [tally EXCEPT ![Outcome(result)] = @ + 1]
                  /\ pc' = IF Outcome(result) = "failed" /\ fail
                           THEN "stopped" ELSE "run"
    /\ UNCHANGED <<suiteFrame, dirs, patterns, tests, fail>>

\* The loop is over: the three counters are printed.
Summary ==
    /\ pc = "run"
    /\ position = Len(tests)
    /\ pc' = "done"
    /\ UNCHANGED <<suiteFrame, suiteVars, returned, tally>>

NextSuite == Gather \/ RunTest \/ Summary

SpecSuite == InitSuite /\ [][NextSuite]_vars

\* ------------------------------------------------- claims: version model

Text4 == <<"4">>

Text3 == <<"3">>

Text40 == <<"4", ".", "0">>

Text403 == <<"4", ".", "0", ".", "3">>

Text413 == <<"4", ".", "1", ".", "3">>

Text402 == <<"4", ".", "0", ".", "2">>

Text410dev == <<"4", ".", "1", ".", "0", "-", "d", "e", "v">>

Parsed(text) == parse_suricata_version(text)[1]

BothPresent(x, y) == x # None /\ y # None

SemanticallyEqual(a, b) ==
    /\ a.major = b.major
    /\ (BothPresent(a.minor, b.minor) => a.minor = b.minor)
    /\ (BothPresent(a.patch, b.patch) => a.patch = b.patch)

NonNumericSuffix(s) ==
    \/ \A i \in 1..Len(s) : ~IsDigit(s[i])
    \/ s # <<>> /\ ~IsDigit(s[1]) /\ s[1] # "."

Between(s, i, j) == SubSeq(s, i + 1, j)

GroupsParsed(k, g1, g2, g3) ==
    Returned(Some(SuricataVersion(
        Some(int(g1)),
        IF k >= 2 THEN Some(int(g2)) ELSE None,
        IF k >= 3 THEN Some(int(g3)) ELSE None)))

\* C3: for every text made of 1 to 3 dot-separated decimal groups and an
\* optional non-numeric suffix, parse_suricata_version returns those
\* integers in order as (major, minor, patch), every group that is not
\* present being absent (None) and never zero, the suffix being discarded.
C3_ParseGroups ==
    /\ parsed # NotRun =>
         \A i \in 1..Len(buf) :
           /\ IsDigits(Between(buf, 0, i))
                /\ NonNumericSuffix(Between(buf, i, Len(buf)))
              => parsed = GroupsParsed(1, Between(buf, 0, i), <<>>, <<>>)
           /\ \A j \in (i + 2)..Len(buf) :
                /\ IsDigits(Between(buf, 0, i)) /\ buf[i + 1] = "."
                     /\ IsDigits(Between(buf, i + 1, j))
                     /\ NonNumericSuffix(Between(buf, j, Len(buf)))
                   => parsed = GroupsParsed(2, Between(buf, 0, i),
                                            Between(buf, i + 1, j), <<>>)
                /\ \A k \in (j + 2)..Len(buf) :
                     IsDigits(Between(buf, 0, i)) /\ buf[i + 1] = "."
                       /\ IsDigits(Between(buf, i + 1, j)) /\ buf[j + 1] = "."
                       /\ IsDigits(Between(buf, j + 1, k))
                       /\ NonNumericSuffix(Between(buf, k, Len(buf)))
                     => parsed = GroupsParsed(3, Between(buf, 0, i),
                                     Between(buf, i + 1, j),
                                     Between(buf, j + 1, k))
    /\ Parsed(Text410dev) = SuricataVersion(Some(4), Some(1), Some(0))
    /\ Parsed(Text4) = SuricataVersion(Some(4), None, None)

\* C3 witness: "4.0-" has been parsed to (4, 0, absent).
C3_Witness ==
    /\ buf = <<"4", ".", "0", "-">>
    /\ parsed = Returned(Some(SuricataVersion(Some(4), Some(0), None)))

FullySpecified(v) == v.major # None /\ v.minor # None /\ v.patch # None

LexGte(v1, v2) ==
    \/ v1.major[1] > v2.major[1]
    \/ v1.major = v2.major /\ v1.minor[1] > v2.minor[1]
    \/ v1.major = v2.major /\ v1.minor = v2.minor
         /\ v1.patch[1] >= v2.patch[1]

\* C4: for every pair of fully specified versions version_gte(v1, v2) is
\* true exactly when (major, minor, patch) of v1 is lexicographically
\* greater than or equal to that of v2.
C4_VersionGteLexicographic ==
    compared[1] = "version_gte" /\ FullySpecified(verA) /\ FullySpecified(verB)
        => compared[2] = Returned(LexGte(verA, verB))

\* C4 witness: the major decided for v1 although its minor and patch are
\* both smaller than those of v2.
C4_Witness ==
    /\ compared = <<"version_gte", Returned(TRUE)>>
    /\ FullySpecified(verA) /\ FullySpecified(verB)
    /\ verA.major[1] > verB.major[1]
    /\ verA.minor[1] < verB.minor[1]
    /\ verA.patch[1] < verB.patch[1]

\* ------------------------------------------- claims: field lookup, checks

\* The value a field name addresses: each part looks its key up in a
\* mapping and, with an index, takes that element of a sequence; anything
\* else (a missing key, a node that is no mapping, an index out of range,
\* an indexed node that is no sequence) is absent.
RECURSIVE Addressed(_, _)
Addressed(parts, node) ==
    IF parts = <<>> THEN node
    ELSE LET m == MatchIndexed(parts[1])
             name == IF m # None THEN m[1][1] ELSE parts[1]
         IN  IF TypeOf(node) # "dict" THEN JNull
             ELSE IF name \notin DOMAIN node[2] THEN JNull
             ELSE IF m = None THEN Addressed(Tail(parts), node[2][name])
             ELSE IF TypeOf(node[2][name]) # "list" THEN JNull
             ELSE IF m[1][2] >= Len(node[2][name][2]) THEN JNull
             ELSE Addressed(Tail(parts), node[2][name][2][m[1][2] + 1])

Resolve(name, obj) == Addressed(split(name, "."), obj)

\* C5: find_value never raises: for every field name and every object,
\* also when an intermediate node is a scalar, a sequence or null, it
\* returns the addressed value when every part resolves and None when a key
\* is missing, an index is out of range or the indexed node is no sequence.
C5_FindValueNeverRaises ==
    found # NotRun => found = Returned(Resolve(path, root))

EntryHolds(entry, event) ==
    CASE entry[1] = HasKey -> Resolve(entry[2][2], event) # JNull
      [] entry[1] = NotHasKey -> Resolve(entry[2][2], event) = JNull
      [] OTHER -> Resolve(entry[1], event) = entry[2]

Matching(entries, events) ==
    Cardinality({i \in 1..Len(events) :
        \A k \in 1..Len(entries) : EntryHolds(entries[k], events[i])})

\* C6: FilterCheck.run succeeds exactly when the number of events of the
\* log for which every declared match entry holds equals the declared
\* count, however many other events the log holds; for any other number it
\* raises a TestError naming the expected and the actual count.
C6_FilterCountsMatchingEvents ==
    verdict # NotRun /\ declared[1] = "filter" /\ eve # None =>
        LET n == Matching(declared[2].match, eve[1])
        IN  IF n = declared[2].count THEN verdict = Returned(TRUE)
            ELSE verdict = TestError(<<declared[2].comment, "expected",
                                       declared[2].count, "got", n>>)

StatsEventsAt(events) ==
    {i \in 1..Len(events) : events[i][2][EventTypeKey] = JStr(StatsText)}

LastStatsOf(events) ==
    events[CHOOSE i \in StatsEventsAt(events) :
               \A j \in StatsEventsAt(events) : j <= i][2][StatsText]

\* C7: StatsCheck.run evaluates the declared keys against the stats of the
\* last stats event only: on a log with several stats events it succeeds
\* exactly when every declared key resolves there to its declared value,
\* whatever the earlier stats events hold, and a mismatch raises a
\* TestError naming the key, the expected and the actual value.
C7_StatsReadsLastSnapshot ==
    /\ verdict # NotRun /\ declared[1] = "stats" /\ eve # None
    /\ Cardinality(StatsEventsAt(eve[1])) >= 2
    =>
        LET last == LastStatsOf(eve[1])
            wrong == {k \in 1..Len(declared[2]) :
                         Resolve(declared[2][k][1], last) # declared[2][k][2]}
        IN  IF wrong = {} THEN verdict = Returned(TRUE)
            ELSE \E k \in wrong :
                    verdict = TestError(<<"stats", declared[2][k][1], "expected",
                                          declared[2][k][2], "got",
                                          Resolve(declared[2][k][1], last)>>)

\* ------------------------------------------------------ claims: the runner

RunEnded == pc \in {"returned", "raised", "reported", "crashed"}

Component(c) == IF c = None THEN 0 ELSE c[1]

\* (major, minor, patch) of v1 is below that of v2, a component a version
\* text leaves out being read as 0.
Below(v1, v2) ==
    \/ Component(v1.major) < Component(v2.major)
    \/ Component(v1.major) = Component(v2.major)
         /\ Component(v1.minor) < Component(v2.minor)
    \/ Component(v1.major) = Component(v2.major)
         /\ Component(v1.minor) = Component(v2.minor)
         /\ Component(v1.patch) < Component(v2.patch)

MinVersionText == config.requires[1].min_version[1]

\* The test declares requires.min-version and the subject is older.
MinVersionUnmet ==
    /\ config.requires # None
    /\ config.requires[1].min_version # None
    /\ parse_suricata_version(MinVersionText) # None
    /\ suricata_config.version # None
    /\ Below(suricata_config.version[1],
             parse_suricata_version(MinVersionText)[1])

ManyPcapsMessage == <<"More than 1 pcap file found">>

\* C9 as stated: every test whose directory holds more than one pcap file
\* and whose specification declares no pcap key ends run() with TestError
\* "More than 1 pcap file found", no process having been spawned.
C9_ManyPcapsAlwaysRaise ==
    directory.pcap > 1 /\ config.pcap = None /\ RunEnded =>
        /\ returned = TestError(ManyPcapsMessage)
        /\ spawned = 0
        /\ helpers = 0

\* The test reaches default_args with an args key that is a list, if any,
\* and leaves the input to be discovered among several pcap files.
ManyPcapsToResolve ==
    /\ directory.pcap + directory.pcapng > 1
    /\ config.pcap = None
    /\ config.command = None
    /\ config.args # Some("not a list")

\* C9 amended: for every test whose directory holds more than one pcap (or
\* pcapng) file and whose specification declares neither a pcap key nor a
\* command (and args, when declared, as a list), run() never spawns the
\* subject process nor a setup script; it ends in the exception the
\* requires / skip gate raised or, when the gate lets the test through, in
\* TestError "More than 1 pcap file found", which main counts as failed.
C9_ManyPcapsRaiseUnlessGatedOrCommand ==
    ManyPcapsToResolve =>
        /\ spawned = 0
        /\ proc = "none"
        /\ pc \in {"check_requires", "check_skip", "args", "raised",
                   "reported", "crashed"}
        /\ (RunEnded =>
               \/ returned = TestError(ManyPcapsMessage)
                    /\ args = None
                    /\ pc # "crashed"
                    /\ (pc = "reported" => tally.failed = 1)
               \/ returned[1] = "raise"
                    /\ returned[2] \in {"UnsatisfiedRequirementError",
                                        "TypeError", "AttributeError"})

\* C9 witness: two pcap files, no pcap key, no command: the gate passed and
\* the test is reported failed with the configuration error.
C9_Witness ==
    /\ ManyPcapsToResolve
    /\ directory.pcap = 2
    /\ pc = "reported"
    /\ returned = TestError(ManyPcapsMessage)
    /\ tally = [passed |-> 0, failed |-> 1, skipped |-> 0]
    /\ spawned = 0

\* The subject's exit status has been compared with the expectation in the
\* iteration last started.
ExitCompared == proc = "reaped" /\ pc # "exit_code"

\* C10: once the subject process has exited, an exit code that equals the
\* declared exit-code (0 when none is declared) takes the iteration on to
\* check(); an exit code that differs ends run() with a TestError naming
\* the actual and the expected code, check() is not called for that
\* iteration, and main counts the test as failed and never as passed.
C10_ExitCodeCompared ==
    ExitCompared =>
        IF code[1] = ExpectedExitCode
        THEN \/ pc = "check" /\ verified.calls = spawned - 1
             \/ verified.calls = spawned
        ELSE /\ returned = TestError(<<"got exit code", code[1], "expected",
                                       ExpectedExitCode>>)
             /\ pc \in {"raised", "reported"}
             /\ verified.calls = spawned - 1
             /\ tally.passed = 0
             /\ (pc = "reported" => tally.failed = 1)

\* C10 witness: exit-code 1 is declared, the subject exits 0 and the test
\* is reported failed.
C10_Witness ==
    /\ config.exit_code = Some(1)
    /\ code = Some(0)
    /\ ExitCompared
    /\ pc = "reported"
    /\ returned = TestError(<<"got exit code", 0, "expected", 1>>)
    /\ tally = [passed |-> 0, failed |-> 1, skipped |-> 0]

\* --------------------------------------------------- claims: the gate

SkipClauses == Listed(config.skip)

\* The messages a matching skip clause of the test can end it with.
SkipMessages ==
    {IF SkipClauses[i].msg # None THEN <<SkipClauses[i].msg[1]>>
     ELSE <<"not for uid", SkipClauses[i].uid[1]>> :
        i \in {j \in 1..Len(SkipClauses) : SkipClauses[j].uid # None}}
    \cup
    {IF SkipClauses[i].msg # None THEN <<SkipClauses[i].msg[1]>>
     ELSE <<"not for feature", SkipClauses[i].feature[1]>> :
        i \in {j \in 1..Len(SkipClauses) : SkipClauses[j].feature # None}}

\* A skip clause of the test names a feature the subject has.
FeatureSkipMatches ==
    \E i \in 1..Len(SkipClauses) :
        /\ SkipClauses[i].feature # None
        /\ SkipClauses[i].feature[1] \in suricata_config.features

GateRaised ==
    /\ returned[1] = "raise"
    /\ returned[2] = "UnsatisfiedRequirementError"

SkipRaised == GateRaised /\ returned[3] \in SkipMessages

UnmetRaised == GateRaised /\ returned[3] \notin SkipMessages

\* C11: whenever a skip clause matches, the test ends as Skip with that
\* clause's declared or default message, also when a requires condition
\* is unmet, and no requires condition (nor a requires script) has been
\* evaluated.
C11_SkipEvaluatedFirst ==
    FeatureSkipMatches /\ RunEnded => SkipRaised /\ helpers = 0

\* C12: main reports a matching skip condition as skipped and an unmet
\* requires condition as a failure, never both under the same outcome.
C12_UnmetReportedAsFailure ==
    pc = "reported" =>
        /\ (SkipRaised => tally.skipped = 1 /\ tally.failed = 0)
        /\ (UnmetRaised => tally.failed = 1 /\ tally.skipped = 0)

\* ------------------------------------------- claims: the repetitions

InRepetition ==
    pc \in {"spawn", "start_stdout", "start_stderr", "join", "wait",
            "exit_code", "check"}

AllJoined == \A i \in 1..Len(readers) : readers[i] = "done"

\* C13: within every repetition the gate has let the test through, the
\* subject is spawned, the stdout and the stderr reader are started, both
\* are joined, only then the exit code is awaited and inspected, and
\* check() starts only after the exit code matched the expectation.
C13_RepetitionOrder ==
    /\ InRepetition => args # None /\ returned = NotRun
    /\ pc = "spawn" => spawned = rep /\ Len(readers) = 2 * rep
    /\ InRepetition /\ pc # "spawn" => spawned = rep + 1 /\ proc # "none"
    /\ pc = "start_stdout" => Len(readers) = 2 * rep
    /\ pc = "start_stderr" => Len(readers) = 2 * rep + 1
    /\ pc \in {"join", "wait", "exit_code", "check"} =>
           Len(readers) = 2 * spawned
    /\ pc \in {"start_stdout", "start_stderr", "join"} =>
           proc \in {"running", "exited"} /\ verified.calls = rep
    /\ pc = "wait" =>
           AllJoined /\ proc \in {"running", "exited"} /\ verified.calls = rep
    /\ pc = "exit_code" =>
           AllJoined /\ proc = "reaped" /\ code # None /\ verified.calls = rep
    /\ pc = "check" =>
           /\ AllJoined /\ proc = "reaped" /\ verified.calls = rep
           /\ code = Some(ExpectedExitCode)

\* C13 witness: the second repetition is being verified: four readers have
\* been started and joined, the subject has been reaped with the expected
\* exit code.
C13_Witness ==
    /\ pc = "check"
    /\ rep = 1
    /\ spawned = 2
    /\ readers = <<"done", "done", "done", "done">>
    /\ proc = "reaped"
    /\ code = Some(1)
    /\ config.exit_code = Some(1)

\* ------------------------------------------------ claims: the pipes

\* C14: whatever finite output the subject writes to stdout and stderr, in
\* any interleaving and also beyond a pipe's capacity, both readers reach
\* the end of their stream, both joins return and run() gets to inspect
\* the exit code.
C14_OutputNeverDeadlocks == <>(pc = "exit_code")

\* ------------------------------------------- claims: count and checks

\* C15: the subject is run count times (1 when no count is declared) when
\* every repetition succeeds, check() being called after each run; once a
\* repetition fails (exit code, a declared check, check.sh) no further
\* repetition is started; so the subject is spawned at most count times
\* and run() returns True only after count repetitions that all passed.
C15_CountRepetitions ==
    /\ spawned <= Count
    /\ rep <= verified.calls /\ verified.calls <= spawned
    /\ spawned <= rep + 1
    /\ pc = "loop" => spawned = rep /\ verified.calls = rep
    /\ returned = Returned(TRUE) =>
           spawned = Count /\ verified.calls = Count /\ rep = Count
    /\ tally.passed = 1 => returned = Returned(TRUE)
    /\ RunEnded /\ returned # Returned(TRUE) =>
           rep < Count /\ tally.passed = 0

\* C15 witness: count is 2, the first repetition passed, check.sh failed
\* the second and the test is reported failed after two runs.
C15_Witness ==
    /\ config.count = Some(2)
    /\ pc = "reported"
    /\ returned = Returned(FALSE)
    /\ spawned = 2
    /\ rep = 1
    /\ verified.calls = 2
    /\ tally = [passed |-> 0, failed |-> 1, skipped |-> 0]

LastCheckPassed == verified.calls > 0 /\ verified.calls = rep

EveryCheckPassed ==
    /\ Len(verified.ran) = Len(Listed(config.checks))
    /\ \A i \in 1..Len(verified.ran) : verified.ran[i][2]
    /\ (directory.check_sh => verified.script = Some(0))

\* C16: check() runs the declared checks in declaration order and the
\* first one that fails ends it: no check declared after it is run, nor
\* check.sh; the run passes only if every declared check passed, and
\* check.sh too when the directory has one.
C16_FirstFailingCheckAborts ==
    verified.calls > 0 =>
        /\ Len(verified.ran) <= Len(Listed(config.checks))
        /\ \A i \in 1..Len(verified.ran) :
              /\ verified.ran[i][1] = config.checks[1][i]
              /\ (i < Len(verified.ran) => verified.ran[i][2])
        /\ (verified.script # None =>
               /\ directory.check_sh
               /\ Len(verified.ran) = Len(Listed(config.checks))
               /\ \A i \in 1..Len(verified.ran) : verified.ran[i][2])
        /\ (LastCheckPassed <=> EveryCheckPassed)
        /\ (~LastCheckPassed =>
               /\ returned # Returned(TRUE)
               /\ returned # NotRun
               /\ (returned = Returned(FALSE) <=> verified.script # None))

\* C16 witness: of two declared checks the first failed: the second was
\* not run, nor check.sh, which the directory has; the test is reported
\* failed.
C16_Witness ==
    /\ Len(Listed(config.checks)) = 2
    /\ directory.check_sh
    /\ verified.calls = 1
    /\ verified.ran = <<<<"filter", FALSE>>>>
    /\ verified.script = None
    /\ pc = "reported"
    /\ tally = [passed |-> 0, failed |-> 1, skipped |-> 0]

\* ------------------------------------------- claims: the gate's effects

\* C17 as stated: when the gate ends in Skip or Unmet no process has been
\* spawned, neither the subject nor any other, and the output directory
\* holds what it held before the test started.
C17_GateSpawnsNothing ==
    GateRaised /\ RunEnded =>
        spawned = 0 /\ helpers = 0 /\ output \subseteq {0}

\* C17 amended: when the gate ends in Skip or Unmet, the subject has not
\* been spawned, no setup script, pre-check, check or check.sh has run,
\* and the output directory holds what it held before the test started;
\* the only processes spawned are scripts named by requires.script.
C17_GateSpawnsOnlyRequiresScripts ==
    GateRaised =>
        /\ spawned = 0
        /\ proc = "none"
        /\ readers = <<>>
        /\ args = None
        /\ verified = NotVerified
        /\ output \subseteq {0}
        /\ helpers <= (IF config.requires = None THEN 0
                       ELSE Len(Listed(config.requires[1].script)))

\* C17 witness: the requires script ran and exited zero, then the gate
\* found no pcap file: reported skipped, the old output directory in place.
C17_Witness ==
    /\ UnmetRaised
    /\ returned[3] = <<"No pcap file found">>
    /\ helpers = 1
    /\ spawned = 0
    /\ output = {0}
    /\ pc = "reported"
    /\ tally.skipped = 1

\* ------------------------------------------------ claims: the suite

\* The directories the command line selects.
Selected ==
    {d \in dirs : patterns = <<>>
                     \/ \E i \in 1..Len(patterns) : IsSubstring(patterns[i], d)}

Runs(d) == Cardinality({i \in 1..position : tests[i] = d})

Counted == tally.passed + tally.failed + tally.skipped

\* C18: in one suite run every selected test directory is run once, also
\* when it matches several patterns, each run increments exactly one of
\* passed, failed and skipped, and without fail-fast the three counters
\* sum to the number of selected directories.
C18_OneOutcomePerDirectory ==
    /\ \A d \in dirs : Runs(d) <= 1
    /\ Counted = position
    /\ (pc = "done" /\ ~fail =>
           /\ \A d \in Selected : Runs(d) = 1
           /\ Counted = Cardinality(Selected))

\* ------------------------------------------------ claims: parse failure

\* The first non-blank character of the text is a decimal digit.
LeadingDigit(text) == strip(text) # <<>> /\ IsDigit(strip(text)[1])

HasDigit(text) == \E i \in 1..Len(text) : IsDigit(text[i])

\* C19 as stated: parse_suricata_version returns None for every text whose
\* first non-blank character is not a decimal digit, and a version only
\* for text that begins with a digit group.
C19_NoLeadingDigitNoVersion ==
    parsed # NotRun => (parsed = Returned(None) <=> ~LeadingDigit(buf))

\* C19 amended: parse_suricata_version returns None exactly for the texts
\* that contain no decimal digit; a text with a digit anywhere yields a
\* version, read from its first digit group on.
C19_NoDigitNoVersion ==
    parsed # NotRun => (parsed = Returned(None) <=> ~HasDigit(buf))

\* C19 witness: "-4.0" does not begin with a digit and parses as 4.0.
C19_Witness ==
    /\ buf = <<"-", "4", ".", "0">>
    /\ parsed = Returned(Some(SuricataVersion(Some(4), Some(0), None)))

\* ------------------------------------------ claims: the output directory

\* C20: the output directory is deleted and made again before each
\* repetition: from the moment the subject is spawned in a repetition to
\* the end of its verification the directory holds files of that
\* repetition only, none of an earlier one nor of an earlier suite run,
\* and the verification of a repetition has finished when the directory
\* is deleted for the next.
C20_OutputFreshEachRepetition ==
    /\ InRepetition => output = {rep + 1}
    /\ pc = "loop" /\ rep > 0 => output = {rep} /\ verified.calls = rep

\* C20 witness: the subject is about to be spawned for the second
\* repetition; the first has been verified and the directory, which held
\* files before the test started, holds the second repetition's only.
C20_Witness ==
    /\ pc = "spawn"
    /\ rep = 1
    /\ spawned = 1
    /\ verified.calls = 1
    /\ output = {2}

\* ------------------------------------------- claims: the pcap requirement

NoPcapFile == directory.pcap + directory.pcapng = 0

OptsOutOfPcap ==
    config.requires # None /\ config.requires[1].pcap = Some(FALSE)

\* C22: for every specification that declares neither a command nor a pcap
\* path and does not opt out with requires.pcap = false, a present but
\* empty requires block included, a test directory without a pcap or
\* pcapng file does not get past check_requires: the test ends as an
\* unsatisfied requirement, "No pcap file found" when nothing else is
\* declared, and the subject is not spawned; in the three exempt cases the
\* missing pcap does not end the test.
C22_PcapRequiredByDefault ==
    NoPcapFile /\ pc # "check_requires" =>
        IF config.command = None /\ config.pcap = None /\ ~OptsOutOfPcap
        THEN /\ spawned = 0
             /\ pc \in {"raised", "reported", "crashed"}
             /\ returned[1] = "raise"
             /\ returned[2] \in {"UnsatisfiedRequirementError", "TypeError",
                                 "AttributeError"}
             /\ (config.skip = None
                   /\ (config.requires = None
                         \/ config.requires[1] = NoRequires)
                   => returned = UnsatisfiedRequirementError(
                                     <<"No pcap file found">>))
        ELSE returned # UnsatisfiedRequirementError(<<"No pcap file found">>)

\* ---------------------------------------- claims: the two comparisons

Holds(result) == result = Returned(TRUE)

\* C23: on versions with major, minor and patch present, version_equal(a, b)
\* holds exactly when a and b are the same triple, and exactly when
\* version_gte(a, b) and version_gte(b, a) both hold; version_gte always
\* answers, and is reflexive, transitive and total.
C23_ComparisonsAgree ==
    compared[1] = "order" =>
        LET r == compared[2]
        IN  /\ Holds(r.equal) <=> verA = verB
            /\ Holds(r.equal) <=> Holds(r.ab) /\ Holds(r.ba)
            /\ \A k \in {"aa", "ab", "ba", "bc", "ac"} :
                  r[k] \in {Returned(TRUE), Returned(FALSE)}
            /\ Holds(r.aa)
            /\ Holds(r.ab) /\ Holds(r.bc) => Holds(r.ac)
            /\ Holds(r.ab) \/ Holds(r.ba)

\* C23 witness: 2.0.1 >= 1.2.2 >= 1.2.0, hence 2.0.1 >= 1.2.0; the first
\* two are not equal and are not each other's upper bound.
C23_Witness ==
    /\ compared[1] = "order"
    /\ verA = SuricataVersion(Some(2), Some(0), Some(1))
    /\ verB = SuricataVersion(Some(1), Some(2), Some(2))
    /\ verC = SuricataVersion(Some(1), Some(2), Some(0))
    /\ Holds(compared[2].ab) /\ Holds(compared[2].bc) /\ Holds(compared[2].ac)
    /\ ~Holds(compared[2].ba)
    /\ ~Holds(compared[2].equal)

\* --------------------------------------------- claims: captured output

\* C21: when check() starts, the stdout and stderr files on disk hold every
\* line the subject wrote to the stream, in order; nothing is left in a
\* writer's buffer or in a pipe, and the subject has been reaped.
C21_CapturedOutputComplete ==
    pc = "check" =>
        /\ proc = "reaped"
        /\ pending = <<>>
        /\ \A i \in {1, 2} :
              /\ pipe[i] = <<>>
              /\ files[i].buffer = <<>>
              /\ files[i].disk = written[i]

====
